---- MODULE Spec2Model ----
(***************************************************************************)
(* DeferredWorker.consume (zerver/worker/deferred_work.py): the handler of  *)
(* the "deferred_work" queue.  The module models the durable store          *)
(* (Message, UserMessage, RealmExport, RealmAuditLog), the queue, and the   *)
(* position of the single worker inside consume.                           *)
(***************************************************************************)
EXTENDS Integers, Sequences, FiniteSets, TLC

VARIABLES
    Message,          \* table zerver_message: set of rows [id, realm_id, recipient_id]
    UserMessage,      \* table zerver_usermessage: row <<user, message id>> -> flags
    queue,            \* the deferred_work queue: sequence of events
    pc,               \* position of the worker inside consume
    event,            \* the event passed to consume
    min_id,           \* local of the batch handler
    total_messages,   \* local of the batch handler
    messages,         \* local of the batch handler: ids of the current batch
    elapsed,          \* time.perf_counter() - start_time
    cursors,          \* history: min_id read at line 75, one per invocation
    batches,          \* history: the batches committed, in order
    published,        \* history: events published by the current invocation
    runs,             \* history: number of invocations started
    seen,             \* history: the events consumed so far
    redeliveries,     \* history: number of queue-level redeliveries
    UserMessage0,     \* history: UserMessage at Init
    RealmExport,      \* table zerver_realmexport: id -> [status, date_failed]
    RealmAuditLog,    \* table zerver_realmauditlog: id -> [extra_data]
    export_row,       \* local of the realm_export handler: id of the row loaded
    export_event,     \* local of the realm_export handler: id of the audit entry, or 0
    now,              \* timezone_now()
    export_calls,     \* history: the calls of export_realm_wrapper: [row, run, status]
    sent,             \* history: notifications sent by the current invocation
    entry_status,     \* history: status read at line 152 by the current invocation
    path,             \* history: branch of the realm_export handler taken
    ended,            \* history: how the latest invocation ended
    logged,           \* history: completion lines (232-237) logged by the invocation
    crashes,          \* history: number of worker crashes
    dep_calls,           \* history: dependency calls made by the current invocation
    handlers,         \* history: branches of consume entered by the current invocation
    exc,              \* history: the exception the latest invocation let escape
    failure_processed, \* history: number of calls of failure_processor
    failures          \* history: the batch transactions that failed: [run, event, min_id]

batchLocals == <<min_id, total_messages, messages, elapsed>>
batchHist == <<cursors, batches>>
batchVars == <<Message, UserMessage, min_id, total_messages, messages, elapsed,
               cursors, batches, UserMessage0>>
exportStore == <<RealmExport, RealmAuditLog>>
exportLocals == <<export_row, export_event>>
exportVars == <<RealmExport, RealmAuditLog, export_row, export_event, export_calls,
                sent, entry_status, path>>
callHist == <<dep_calls, handlers, exc>>
failHist == <<failure_processed, failures>>

vars == <<Message, UserMessage, queue, pc, event, min_id, total_messages,
          messages, elapsed, cursors, batches, published, runs, seen,
          redeliveries, UserMessage0, RealmExport, RealmAuditLog, export_row,
          export_event, now, export_calls, sent, entry_status, path, ended,
          logged, crashes, dep_calls, handlers, exc, failure_processed, failures>>

----------------------------------------------------------------------------
(* Bounds of the model *)

MaxFull == 2          \* the target set holds q * batch_size + r messages, q \in 0..MaxFull
MaxFullRedelivered == 1   \* as MaxFull, where events are redelivered
MaxRedeliveries == 1  \* queue-level redeliveries of an event already consumed
MaxCrashes == 2       \* worker crashes in one behaviour
MaxRuns == 4          \* invocations of consume in one behaviour
MaxRetries == 2       \* re-submissions retry_event grants one event
MaxFailures == 1      \* batch transactions that fail in one behaviour

(* Program constants *)

batch_size == 50
TimeBudget == 30
FlagRead == 1

Users == {"u1", "u2"}
BatchSeconds == {1, 31}     \* wall time one batch transaction may take
Rests == {0, 1, 20, 49}         \* r: size of the last, partial batch
Strides == {1, 2}               \* the stream's messages have the ids divisible by it
Patterns == {0, 1}              \* families of starting flags

Stream == [recipient_id |-> "stream", realm_id |-> "realm"]
NoEvent == [type |-> "none"]

----------------------------------------------------------------------------
(* Pure helpers *)

RECURSIVE BitOr(_, _)
BitOr(a, b) ==
    IF a = 0 THEN b
    ELSE IF b = 0 THEN a
    ELSE (IF a % 2 = 1 \/ b % 2 = 1 THEN 1 ELSE 0) + 2 * BitOr(a \div 2, b \div 2)

\* UserMessage.where_unread(): "flags & 1 = 0"
where_unread(f) == f % 2 = 0

\* event.get(key, default)
EventGet(ev, key, default) == IF key \in DOMAIN ev THEN ev[key] ELSE default

\* {**event, "min_id": min_id}
WithMinIdDropped(ev, m) == ev
WithMinId(ev, m) ==
    [k \in DOMAIN ev \cup {"min_id"} |-> IF k = "min_id" THEN m ELSE ev[k]]

\* the ids a message can have, in ascending order
MessageIds == [i \in 1..((MaxFull + 1) * batch_size * 2) |-> i]

\* Message.objects.filter(realm_id, recipient_id, id__gt).order_by("id")[:batch_size]
\*   .values_list("id", flat=True)
SelectBatchGte(ev, lo) ==
    LET hit == {m.id : m \in {r \in Message : /\ r.realm_id = Stream.realm_id
                                              /\ r.recipient_id = ev.stream_recipient_id
                                              /\ r.id >= lo}}
        ordered == SelectSeq(MessageIds, LAMBDA i : i \in hit)
    IN  SubSeq(ordered, 1, IF Len(ordered) < batch_size THEN Len(ordered) ELSE batch_size)
SelectBatch(ev, lo) ==
    LET hit == {m.id : m \in {r \in Message : /\ r.realm_id = Stream.realm_id
                                              /\ r.recipient_id = ev.stream_recipient_id
                                              /\ r.id > lo}}
        ordered == SelectSeq(MessageIds, LAMBDA i : i \in hit)
    IN  SubSeq(ordered, 1, IF Len(ordered) < batch_size THEN Len(ordered) ELSE batch_size)

Range(s) == {s[i] : i \in 1..Len(s)}

\* UserMessage...filter(message__in=messages).extra(where unread)
\*   .update(flags=F("flags").bitor(UserMessage.flags.read))
UpdateFlagsAdd(um, msgs) ==
    [r \in DOMAIN um |-> IF r[2] \in Range(msgs) THEN um[r] + FlagRead ELSE um[r]]
UpdateFlags(um, msgs) ==
    [r \in DOMAIN um |->
        IF r[2] \in Range(msgs) /\ where_unread(um[r]) THEN BitOr(um[r], FlagRead)
        ELSE um[r]]

\* messages[-1]
LastFirst(msgs) == msgs[1]
Last(msgs) == msgs[Len(msgs)]

----------------------------------------------------------------------------
(* Initial states *)

MessagesOf(n, stride) ==
    {[id |-> i, realm_id |-> Stream.realm_id,
      recipient_id |-> IF i % stride = 0 THEN Stream.recipient_id ELSE "other"]
        : i \in 1..(n * stride)}

FlagsOf(msgs, p) ==
    [r \in Users \X {m.id : m \in msgs} |->
        (r[2] * p + (IF r[1] = "u1" THEN 0 ELSE 1) + (r[2] \div 3)) % 4]

MarkAllEvent ==
    [type |-> "mark_stream_messages_as_read_for_everyone",
     stream_recipient_id |-> Stream.recipient_id]

\* the worker before its first event
InitWorker ==
    /\ published = <<>>
    /\ runs = 0
    /\ seen = {}
    /\ redeliveries = 0
    /\ now = 1
    /\ ended = "none"
    /\ logged = 0
    /\ crashes = 0
    /\ dep_calls = <<>>
    /\ handlers = <<>>
    /\ exc = "none"
    /\ failure_processed = 0
    /\ failures = <<>>

InitExportLocals ==
    /\ export_row = 0
    /\ export_event = 0
    /\ export_calls = <<>>
    /\ sent = <<>>
    /\ entry_status = "none"
    /\ path = "none"

InitExportVars ==
    /\ RealmExport = <<>>
    /\ RealmAuditLog = <<>>
    /\ InitExportLocals

\* a stream of up to maxFull full batches and a rest, and the event that
\* the stream's deactivation queues
InitStream(maxFull) ==
    /\ \E q \in 0..maxFull, r \in Rests, stride \in Strides, p \in Patterns :
          /\ Message = MessagesOf(q * batch_size + r, stride)
          /\ UserMessage = FlagsOf(MessagesOf(q * batch_size + r, stride), p)
    /\ UserMessage0 = UserMessage
    /\ queue = <<MarkAllEvent>>
    /\ pc = "idle"
    /\ event = NoEvent
    /\ min_id = 0
    /\ total_messages = 0
    /\ messages = <<>>
    /\ elapsed = 0
    /\ cursors = <<>>
    /\ batches = <<>>
    /\ InitWorker
    /\ InitExportVars

InitBatch == InitStream(MaxFull)

InitRedeliver == InitStream(MaxFullRedelivered)

----------------------------------------------------------------------------
(* The queue worker: takes the next event and calls consume *)

\* what every call of consume starts from; time has passed since the last one
StartInvocation ==
    /\ pc' = "consume"
    /\ runs' = runs + 1
    /\ now' = now + 1
    /\ published' = <<>>
    /\ sent' = <<>>
    /\ entry_status' = "none"
    /\ path' = "none"
    /\ ended' = "running"
    /\ logged' = 0
    /\ dep_calls' = <<>>
    /\ handlers' = <<>>
    /\ exc' = "none"

Deliver ==
    /\ pc = "idle"
    /\ queue # <<>>
    /\ runs < MaxRuns
    /\ event' = Head(queue)
    /\ queue' = Tail(queue)
    /\ seen' = seen \cup {Head(queue)}
    /\ StartInvocation
    /\ UNCHANGED <<batchVars, exportStore, exportLocals, export_calls, redeliveries,
                   crashes, failHist>>

\* at-least-once delivery: an event consumed before is handed to consume again
Redeliver ==
    /\ pc = "idle"
    /\ runs < MaxRuns
    /\ redeliveries < MaxRedeliveries
    /\ \E e \in seen : event' = e
    /\ redeliveries' = redeliveries + 1
    /\ StartInvocation
    /\ UNCHANGED <<batchVars, exportStore, exportLocals, export_calls, queue, seen,
                   crashes, failHist>>

\* an exception leaves consume
Raise(e) ==
    /\ pc' = "idle"
    /\ ended' = "raised"
    /\ exc' = e

Return ==
    /\ pc' = "idle"
    /\ ended' = "returned"

(* consume, event type mark_stream_messages_as_read_for_everyone *)

\* lines 66-76
MarkAllStart ==
    /\ pc = "consume"
    /\ event.type = "mark_stream_messages_as_read_for_everyone"
    /\ min_id' = EventGet(event, "min_id", 0)
    /\ total_messages' = 0
    /\ elapsed' = 0
    /\ messages' = <<>>
    /\ cursors' = Append(cursors, EventGet(event, "min_id", 0))
    /\ pc' = "batch_txn"
    /\ handlers' = Append(handlers, event.type)
    /\ UNCHANGED <<Message, UserMessage, queue, event, batches, published, runs,
                   seen, redeliveries, UserMessage0, exportVars, now, ended, logged,
                   crashes, dep_calls, exc, failHist>>

\* lines 78-91: one transaction.atomic block, committed at its exit
BatchTxn ==
    /\ pc = "batch_txn"
    /\ messages' = SelectBatch(event, min_id)
    /\ UserMessage' = UpdateFlags(UserMessage, messages')
    /\ batches' = Append(batches, Range(messages'))
    /\ \E d \in BatchSeconds : elapsed' = elapsed + d
    /\ pc' = "batch_after"
    /\ UNCHANGED <<Message, queue, event, min_id, total_messages, cursors, published,
                   runs, seen, redeliveries, UserMessage0, exportVars, now, ended,
                   logged, crashes, callHist, failHist>>

\* lines 92-104
BatchAfterTimeFirst ==
    /\ pc = "batch_after"
    /\ total_messages' = total_messages + Len(messages)
    /\ IF elapsed > TimeBudget /\ messages # <<>>
       THEN /\ min_id' = Last(messages)
            /\ queue' = Append(queue, WithMinId(event, min_id'))
            /\ published' = Append(published, WithMinId(event, min_id'))
            /\ pc' = "batch_log"
       ELSE IF Len(messages) < batch_size
       THEN /\ pc' = "batch_log"
            /\ UNCHANGED <<min_id, queue, published>>
       ELSE /\ min_id' = Last(messages)
            /\ pc' = "batch_txn"
            /\ UNCHANGED <<queue, published>>
    /\ UNCHANGED <<Message, UserMessage, event, messages, elapsed, cursors, batches,
                   runs, seen, redeliveries, UserMessage0, exportVars, now, ended,
                   logged, crashes, callHist, failHist>>
BatchAfter ==
    /\ pc = "batch_after"
    /\ total_messages' = total_messages + Len(messages)
    /\ IF Len(messages) < batch_size
       THEN /\ pc' = "batch_log"
            /\ UNCHANGED <<min_id, queue, published>>
       ELSE /\ min_id' = Last(messages)
            /\ IF elapsed > TimeBudget
               THEN /\ queue' = Append(queue, WithMinId(event, min_id'))
                    /\ published' = Append(published, WithMinId(event, min_id'))
                    /\ pc' = "batch_log"
               ELSE /\ pc' = "batch_txn"
                    /\ UNCHANGED <<queue, published>>
    /\ UNCHANGED <<Message, UserMessage, event, messages, elapsed, cursors, batches,
                   runs, seen, redeliveries, UserMessage0, exportVars, now, ended,
                   logged, crashes, callHist, failHist>>

\* lines 105-109 and 232-237
MarkAllFinish ==
    /\ pc = "batch_log"
    /\ pc' = "idle"
    /\ ended' = "returned"
    /\ logged' = logged + 1
    /\ UNCHANGED <<batchVars, queue, event, published, runs, seen, redeliveries,
                   exportVars, now, crashes, callHist, failHist>>

NextBatch == Deliver \/ MarkAllStart \/ BatchTxn \/ BatchAfter \/ MarkAllFinish

Spec == InitBatch /\ [][NextBatch]_vars

\* the worker never stops taking steps while it has one to take
SpecBatchFair == InitBatch /\ [][NextBatch]_vars /\ WF_vars(NextBatch)

NextRedeliver == NextBatch \/ Redeliver

SpecRedeliver == InitRedeliver /\ [][NextRedeliver]_vars

\* lines 78-91: a statement of the block raises (the database fails);
\* transaction.atomic rolls the block back and the exception leaves consume
BatchTxnFailCommitted ==
    /\ pc = "batch_txn"
    /\ Len(failures) < MaxFailures
    /\ failures' = Append(failures, [run |-> runs, event |-> event, min_id |-> min_id])
    /\ UserMessage' = UpdateFlags(UserMessage, SelectBatch(event, min_id))
    /\ Raise("DatabaseError")
    /\ UNCHANGED <<Message, batchLocals, batchHist, UserMessage0, queue, event,
                   published, runs, seen, redeliveries, exportVars, now, logged, crashes,
                   dep_calls, handlers, failure_processed>>
BatchTxnFail ==
    /\ pc = "batch_txn"
    /\ Len(failures) < MaxFailures
    /\ failures' = Append(failures, [run |-> runs, event |-> event, min_id |-> min_id])
    /\ Raise("DatabaseError")
    /\ UNCHANGED <<batchVars, queue, event, published, runs, seen, redeliveries,
                   exportVars, now, logged, crashes, dep_calls, handlers,
                   failure_processed>>

\* the worker framework hands the event of the invocation that raised to
\* consume again
RedeliverFailed ==
    /\ pc = "idle"
    /\ ended = "raised"
    /\ runs < MaxRuns
    /\ redeliveries' = redeliveries + 1
    /\ StartInvocation
    /\ UNCHANGED <<batchVars, exportStore, exportLocals, export_calls, queue, seen,
                   event, crashes, failHist>>

NextBatchFail == NextBatch \/ BatchTxnFail \/ RedeliverFailed

SpecBatchFail == InitRedeliver /\ [][NextBatchFail]_vars

----------------------------------------------------------------------------
(* consume, event type realm_export *)

\* RealmExport.objects.create(...).id: the next value of the id sequence
NextExportId == Cardinality(DOMAIN RealmExport) + 1

Status(id) == RealmExport[id].status

\* line 152: export_row.status != RealmExport.REQUESTED
ShortCircuitsOnFailed(status) == status = "FAILED"
ShortCircuits(status) == status # "REQUESTED"

\* notify_realm_export(realm), recorded with the status the row has then
notify_realm_export(s, id) == Append(s, [kind |-> "observers", status |-> Status(id)])

\* internal_send_private_message(sender=bot, recipient_user=user_profile, ...)
internal_send_private_message(s, id) ==
    Append(s, [kind |-> "direct", status |-> Status(id)])

\* lines 127-148: load the status row, or create it for a legacy event
ExportLoad ==
    /\ pc = "consume"
    /\ event.type = "realm_export"
    /\ IF "realm_export_id" \in DOMAIN event
       THEN IF event.realm_export_id \in DOMAIN RealmExport
            THEN /\ export_row' = event.realm_export_id
                 /\ export_event' = 0
                 /\ pc' = "export_check"
                 /\ UNCHANGED <<RealmExport, ended, exc>>
            ELSE /\ Raise("DoesNotExist")
                 /\ UNCHANGED <<RealmExport, export_row, export_event>>
       ELSE IF event.id \notin DOMAIN RealmAuditLog
            THEN /\ Raise("DoesNotExist")
                 /\ UNCHANGED <<RealmExport, export_row, export_event>>
            ELSE /\ export_event' = event.id
                 /\ IF "export_row_id" \in DOMAIN RealmAuditLog[event.id].extra_data
                    THEN /\ export_row' = RealmAuditLog[event.id].extra_data.export_row_id
                         /\ IF export_row' \in DOMAIN RealmExport
                            THEN pc' = "export_check" /\ UNCHANGED <<ended, exc>>
                            ELSE Raise("DoesNotExist")
                         /\ UNCHANGED RealmExport
                    ELSE /\ export_row' = NextExportId
                         /\ RealmExport' = RealmExport @@
                               (NextExportId :> [status |-> "REQUESTED", date_failed |-> 0])
                         /\ pc' = "export_save_extra"
                         /\ UNCHANGED <<ended, exc>>
    /\ handlers' = Append(handlers, event.type)
    /\ UNCHANGED <<batchVars, queue, event, published, runs, seen, redeliveries,
                   RealmAuditLog, export_calls, sent, entry_status, path, now, logged,
                   crashes, dep_calls, failHist>>

\* lines 149-150
ExportSaveExtra ==
    /\ pc = "export_save_extra"
    /\ RealmAuditLog' = [RealmAuditLog EXCEPT ![export_event] =
                            [extra_data |-> [export_row_id |-> export_row]]]
    /\ pc' = "export_check"
    /\ UNCHANGED <<batchVars, queue, event, published, runs, seen, redeliveries,
                   RealmExport, exportLocals, export_calls, sent, entry_status, path,
                   now, ended, logged, crashes, callHist, failHist>>

\* lines 152-159: the row is not REQUESTED
ExportShortCircuit ==
    /\ pc = "export_check"
    /\ ShortCircuits(Status(export_row))
    /\ entry_status' = Status(export_row)
    /\ path' = "short_circuit"
    /\ RealmExport' = [RealmExport EXCEPT ![export_row] =
                          [status |-> "FAILED", date_failed |-> now]]
    /\ pc' = "export_notify_failed"
    /\ UNCHANGED <<batchVars, queue, event, published, runs, seen, redeliveries,
                   RealmAuditLog, exportLocals, export_calls, sent, now, ended, logged,
                   crashes, callHist, failHist>>

\* lines 160-161
ExportNotifyFailedTwice ==
    /\ pc = "export_notify_failed"
    /\ sent' = notify_realm_export(notify_realm_export(sent, export_row), export_row)
    /\ Return
    /\ UNCHANGED <<batchVars, queue, event, published, runs, seen, redeliveries,
                   exportStore, exportLocals, export_calls, entry_status, path, now,
                   logged, crashes, callHist, failHist>>
ExportNotifyFailed ==
    /\ pc = "export_notify_failed"
    /\ sent' = notify_realm_export(sent, export_row)
    /\ Return
    /\ UNCHANGED <<batchVars, queue, event, published, runs, seen, redeliveries,
                   exportStore, exportLocals, export_calls, entry_status, path, now,
                   logged, crashes, callHist, failHist>>

\* lines 152, 163-168: the row is REQUESTED
ExportProceed ==
    /\ pc = "export_check"
    /\ ~ShortCircuits(Status(export_row))
    /\ entry_status' = Status(export_row)
    /\ pc' = "export_call"
    /\ UNCHANGED <<batchVars, queue, event, published, runs, seen, redeliveries,
                   exportStore, exportLocals, export_calls, sent, path, now, ended,
                   logged, crashes, callHist, failHist>>

\* lines 170-176: the call of export_realm_wrapper
ExportCall ==
    /\ pc = "export_call"
    /\ export_calls' = Append(export_calls, [row |-> export_row, run |-> runs,
                                             status |-> Status(export_row)])
    /\ pc' = "in_export"
    /\ UNCHANGED <<batchVars, queue, event, published, runs, seen, redeliveries,
                   exportStore, exportLocals, sent, entry_status, path, now, ended,
                   logged, crashes, callHist, failHist>>

(* export_realm_wrapper (zerver/lib/export.py) *)

\* the operation starts its work: the row leaves REQUESTED
WrapperBegin ==
    /\ pc = "in_export"
    /\ RealmExport' = [RealmExport EXCEPT ![export_row].status = "IN_PROGRESS"]
    /\ pc' = "exporting"
    /\ UNCHANGED <<batchVars, queue, event, published, runs, seen, redeliveries,
                   RealmAuditLog, exportLocals, export_calls, sent, entry_status, path,
                   now, ended, logged, crashes, callHist, failHist>>

\* the operation records COMPLETED with its output, and returns
WrapperSucceed ==
    /\ pc = "exporting"
    /\ RealmExport' = [RealmExport EXCEPT ![export_row].status = "COMPLETED"]
    /\ pc' = "export_returned"
    /\ path' = "success"
    /\ UNCHANGED <<batchVars, queue, event, published, runs, seen, redeliveries,
                   RealmAuditLog, exportLocals, export_calls, sent, entry_status, now,
                   ended, logged, crashes, callHist, failHist>>

\* the operation raises, before or after it has started its work
WrapperRaise ==
    /\ pc \in {"in_export", "exporting"}
    /\ pc' = "export_except"
    /\ path' = "exception"
    /\ UNCHANGED <<batchVars, queue, event, published, runs, seen, redeliveries,
                   exportStore, exportLocals, export_calls, sent, entry_status, now,
                   ended, logged, crashes, callHist, failHist>>

\* lines 177-185
ExportExceptDirect ==
    /\ pc = "export_except"
    /\ sent' = notify_realm_export(internal_send_private_message(sent, export_row),
                                   export_row)
    /\ Return
    /\ UNCHANGED <<batchVars, queue, event, published, runs, seen, redeliveries,
                   exportStore, exportLocals, export_calls, entry_status, path, now,
                   logged, crashes, callHist, failHist>>
ExportExceptSilent ==
    /\ pc = "export_except"
    /\ Return
    /\ UNCHANGED <<batchVars, queue, event, published, runs, seen, redeliveries,
                   exportStore, exportLocals, export_calls, sent, entry_status, path,
                   now, logged, crashes, callHist, failHist>>
ExportExcept ==
    /\ pc = "export_except"
    /\ sent' = notify_realm_export(sent, export_row)
    /\ Return
    /\ UNCHANGED <<batchVars, queue, event, published, runs, seen, redeliveries,
                   exportStore, exportLocals, export_calls, entry_status, path, now,
                   logged, crashes, callHist, failHist>>

\* lines 187-202
ExportDirectMessage ==
    /\ pc = "export_returned"
    /\ IF export_event # 0
       THEN RealmAuditLog' = [k \in DOMAIN RealmAuditLog \ {export_event} |->
                                 RealmAuditLog[k]]
       ELSE UNCHANGED RealmAuditLog
    /\ sent' = internal_send_private_message(sent, export_row)
    /\ pc' = "export_notify"
    /\ UNCHANGED <<batchVars, queue, event, published, runs, seen, redeliveries,
                   RealmExport, exportLocals, export_calls, entry_status, path, now,
                   ended, logged, crashes, callHist, failHist>>

\* lines 204-211 and 232-237
ExportNotifyDoneSilent ==
    /\ pc = "export_notify"
    /\ Return
    /\ logged' = logged + 1
    /\ UNCHANGED <<batchVars, queue, event, published, runs, seen, redeliveries,
                   exportStore, exportLocals, export_calls, sent, entry_status, path,
                   now, crashes, callHist, failHist>>
ExportNotifyDone ==
    /\ pc = "export_notify"
    /\ sent' = notify_realm_export(sent, export_row)
    /\ Return
    /\ logged' = logged + 1
    /\ UNCHANGED <<batchVars, queue, event, published, runs, seen, redeliveries,
                   exportStore, exportLocals, export_calls, entry_status, path, now,
                   crashes, callHist, failHist>>

\* the worker process dies inside consume (for one, out of memory); the queue
\* hands the unacknowledged event out again
Crash ==
    /\ pc # "idle"
    /\ crashes < MaxCrashes
    /\ crashes' = crashes + 1
    /\ pc' = "idle"
    /\ ended' = "crashed"
    /\ queue' = <<event>> \o queue
    /\ UNCHANGED <<batchVars, event, published, runs, seen, redeliveries, exportVars,
                   now, logged, callHist, failHist>>

ExportEvent == [type |-> "realm_export", user_profile_id |-> "u1", realm_export_id |-> 1]
LegacyExportEvent == [type |-> "realm_export", user_profile_id |-> "u1", id |-> 1, time |-> 0]

InitExport ==
    /\ \/ /\ queue = <<ExportEvent>>
          /\ RealmExport = (1 :> [status |-> "REQUESTED", date_failed |-> 0])
          /\ RealmAuditLog = <<>>
       \/ /\ queue = <<LegacyExportEvent>>
          /\ RealmExport = <<>>
          /\ RealmAuditLog = (1 :> [extra_data |-> [acting_user_id |-> "u1"]])
    /\ InitExportLocals
    /\ InitWorker
    /\ pc = "idle"
    /\ event = NoEvent
    /\ Message = {}
    /\ UserMessage = <<>>
    /\ UserMessage0 = <<>>
    /\ min_id = 0
    /\ total_messages = 0
    /\ messages = <<>>
    /\ elapsed = 0
    /\ cursors = <<>>
    /\ batches = <<>>

NextExport ==
    \/ Deliver \/ Redeliver \/ Crash
    \/ ExportLoad \/ ExportSaveExtra \/ ExportShortCircuit \/ ExportNotifyFailed
    \/ ExportProceed \/ ExportCall
    \/ WrapperBegin \/ WrapperSucceed \/ WrapperRaise
    \/ ExportExcept \/ ExportDirectMessage \/ ExportNotifyDone

SpecExport == InitExport /\ [][NextExport]_vars

----------------------------------------------------------------------------
(* consume, the other event types *)

\* one call of a dependency and how it ended
Call(name, outcome) == [name |-> name, outcome |-> outcome]

\* how a call of a dependency can end
Outcomes == {"ok", "PushNotificationBouncerRetryLaterError", "Exception"}

\* lines 232-237: the completion line, and consume returns
Finish ==
    /\ pc = "finish"
    /\ Return
    /\ logged' = logged + 1
    /\ UNCHANGED <<batchVars, queue, event, published, runs, seen, redeliveries,
                   exportVars, now, crashes, callHist, failHist>>

\* do_mark_stream_messages_as_read(user_profile, recipient_id)
\* (zerver/actions/message_flags.py): the user's unread rows of the stream
do_mark_stream_messages_as_read(um, user, recipient_id) ==
    LET ids == {m.id : m \in {r \in Message : r.recipient_id = recipient_id}}
    IN  [r \in DOMAIN um |->
            IF r[1] = user /\ r[2] \in ids /\ where_unread(um[r])
            THEN BitOr(um[r], FlagRead) ELSE um[r]]

RECURSIVE MarkEach(_, _, _)
\* lines 58-59: for recipient_id in event["stream_recipient_ids"]
MarkEach(um, user, recipient_ids) ==
    IF recipient_ids = <<>> THEN um
    ELSE MarkEach(do_mark_stream_messages_as_read(um, user, Head(recipient_ids)),
                  user, Tail(recipient_ids))

\* lines 50-65
MarkStreamRead ==
    /\ pc = "consume"
    /\ event.type = "mark_stream_messages_as_read"
    /\ handlers' = Append(handlers, event.type)
    /\ UserMessage' = MarkEach(UserMessage, event.user_profile_id,
                               event.stream_recipient_ids)
    /\ dep_calls' = dep_calls \o [i \in 1..Len(event.stream_recipient_ids) |->
                                     Call("do_mark_stream_messages_as_read", "ok")]
    /\ pc' = "finish"
    /\ UNCHANGED <<Message, batchLocals, batchHist, UserMessage0, queue, event,
                   published, runs, seen, redeliveries, exportVars, now, ended, logged,
                   crashes, exc, failHist>>

\* line 115: except PushNotificationBouncerRetryLaterError
CatchesAll(e) == TRUE
Catches(e) == e = "PushNotificationBouncerRetryLaterError"

\* lines 110-115: the call of clear_push_device_tokens inside try
ClearTokensCall ==
    /\ pc = "consume"
    /\ event.type = "clear_push_device_tokens"
    /\ handlers' = Append(handlers, event.type)
    /\ \E o \in Outcomes :
          /\ dep_calls' = Append(dep_calls, Call("clear_push_device_tokens", o))
          /\ IF o = "ok" THEN pc' = "finish" /\ UNCHANGED <<ended, exc>>
             ELSE IF Catches(o) THEN pc' = "clear_except" /\ UNCHANGED <<ended, exc>>
             ELSE Raise(o)
    /\ UNCHANGED <<batchVars, queue, event, published, runs, seen, redeliveries,
                   exportVars, now, logged, crashes, failHist>>

(* retry_event (zerver/lib/queue.py) *)

\* the attempt counter the queue layer keeps with the event
FailedTries(ev) == EventGet(ev, "failed_tries", 0) + 1
WithFailedTries(ev) ==
    [k \in DOMAIN ev \cup {"failed_tries"} |->
        IF k = "failed_tries" THEN FailedTries(ev) ELSE ev[k]]
\* the attempts are exhausted: failure_processor is called, nothing is published
Exhausted(ev) == FailedTries(ev) > MaxRetries

\* lines 115-125: retry_event(self.queue_name, event, failure_processor);
\* failure_processor (117-121) logs a warning
ClearTokensSwallow ==
    /\ pc = "clear_except"
    /\ pc' = "finish"
    /\ UNCHANGED <<batchVars, queue, event, published, runs, seen, redeliveries,
                   exportVars, now, ended, logged, crashes, callHist, failHist>>
ClearTokensRetry ==
    /\ pc = "clear_except"
    /\ IF Exhausted(event)
       THEN /\ failure_processed' = failure_processed + 1
            /\ UNCHANGED <<queue, published>>
       ELSE /\ queue' = Append(queue, WithFailedTries(event))
            /\ published' = Append(published, WithFailedTries(event))
            /\ UNCHANGED failure_processed
    /\ pc' = "finish"
    /\ UNCHANGED <<batchVars, event, runs, seen, redeliveries, exportVars, now, ended,
                   logged, crashes, callHist, failures>>

\* lines 212-218
ReuploadRealmEmoji ==
    /\ pc = "consume"
    /\ event.type = "reupload_realm_emoji"
    /\ handlers' = Append(handlers, event.type)
    /\ \E o \in {"ok", "Exception"} :
          /\ dep_calls' = Append(dep_calls, Call("handle_reupload_emojis_event", o))
          /\ IF o = "ok" THEN pc' = "finish" /\ UNCHANGED <<ended, exc>> ELSE Raise(o)
    /\ UNCHANGED <<batchVars, queue, event, published, runs, seen, redeliveries,
                   exportVars, now, logged, crashes, failHist>>

\* lines 219-225
SoftReactivate ==
    /\ pc = "consume"
    /\ event.type = "soft_reactivate"
    /\ handlers' = Append(handlers, event.type)
    /\ \E o \in {"ok", "Exception"} :
          /\ dep_calls' = Append(dep_calls, Call("reactivate_user_if_soft_deactivated", o))
          /\ IF o = "ok" THEN pc' = "finish" /\ UNCHANGED <<ended, exc>> ELSE Raise(o)
    /\ UNCHANGED <<batchVars, queue, event, published, runs, seen, redeliveries,
                   exportVars, now, logged, crashes, failHist>>

\* lines 226-230: send_server_data_to_push_bouncer, outside any try
PushBouncerUpdate ==
    /\ pc = "consume"
    /\ event.type = "push_bouncer_update_for_realm"
    /\ handlers' = Append(handlers, event.type)
    /\ \E o \in Outcomes :
          /\ dep_calls' = Append(dep_calls, Call("send_server_data_to_push_bouncer", o))
          /\ IF o = "ok" THEN pc' = "finish" /\ UNCHANGED <<ended, exc>> ELSE Raise(o)
    /\ UNCHANGED <<batchVars, queue, event, published, runs, seen, redeliveries,
                   exportVars, now, logged, crashes, failHist>>

\* the types the if/elif chain of lines 50-226 names
HandledTypes ==
    {"mark_stream_messages_as_read", "mark_stream_messages_as_read_for_everyone",
     "clear_push_device_tokens", "realm_export", "reupload_realm_emoji",
     "soft_reactivate", "push_bouncer_update_for_realm"}

\* no branch of the chain matches: lines 48-49, then 232
NoHandlerElse ==
    /\ pc = "consume"
    /\ event.type \notin HandledTypes
    /\ handlers' = Append(handlers, "soft_reactivate")
    /\ dep_calls' = Append(dep_calls, Call("reactivate_user_if_soft_deactivated", "ok"))
    /\ pc' = "finish"
    /\ UNCHANGED <<batchVars, queue, event, published, runs, seen, redeliveries,
                   exportVars, now, ended, logged, crashes, exc, failHist>>
NoHandler ==
    /\ pc = "consume"
    /\ event.type \notin HandledTypes
    /\ pc' = "finish"
    /\ UNCHANGED <<batchVars, queue, event, published, runs, seen, redeliveries,
                   exportVars, now, ended, logged, crashes, callHist, failHist>>

DispatchEvents ==
    {[type |-> "mark_stream_messages_as_read", user_profile_id |-> "u1",
      stream_recipient_ids |-> <<Stream.recipient_id, "other">>],
     MarkAllEvent,
     [type |-> "clear_push_device_tokens", user_profile_id |-> "u1"],
     ExportEvent,
     [type |-> "reupload_realm_emoji", realm_id |-> Stream.realm_id],
     [type |-> "soft_reactivate", user_profile_id |-> "u1"],
     [type |-> "push_bouncer_update_for_realm", realm_id |-> Stream.realm_id],
     [type |-> "unknown"]}

\* one event of any type, a short stream and one export, requested or done
InitDispatch ==
    /\ \E r \in Rests, stride \in Strides, p \in Patterns :
          /\ Message = MessagesOf(r, stride)
          /\ UserMessage = FlagsOf(MessagesOf(r, stride), p)
    /\ UserMessage0 = UserMessage
    /\ \E e \in DispatchEvents : queue = <<e>>
    /\ \E st \in {"REQUESTED", "COMPLETED"} :
          RealmExport = (1 :> [status |-> st, date_failed |-> 0])
    /\ RealmAuditLog = <<>>
    /\ InitExportLocals
    /\ InitWorker
    /\ pc = "idle"
    /\ event = NoEvent
    /\ min_id = 0
    /\ total_messages = 0
    /\ messages = <<>>
    /\ elapsed = 0
    /\ cursors = <<>>
    /\ batches = <<>>

NextDispatch ==
    \/ Deliver
    \/ MarkStreamRead
    \/ MarkAllStart \/ BatchTxn \/ BatchAfter \/ MarkAllFinish
    \/ ClearTokensCall \/ ClearTokensRetry
    \/ ExportLoad \/ ExportShortCircuit \/ ExportNotifyFailed
    \/ ExportProceed \/ ExportCall
    \/ WrapperBegin \/ WrapperSucceed \/ WrapperRaise
    \/ ExportExcept \/ ExportDirectMessage \/ ExportNotifyDone
    \/ ReuploadRealmEmoji \/ SoftReactivate \/ PushBouncerUpdate
    \/ NoHandler \/ Finish

SpecDispatch == InitDispatch /\ [][NextDispatch]_vars

----------------------------------------------------------------------------
(* Properties of the batch handler *)

\* the target set: the stream's messages
Target ==
    {m.id : m \in {r \in Message : /\ r.realm_id = Stream.realm_id
                                   /\ r.recipient_id = Stream.recipient_id}}
Selected == UNION Range(batches)
SetMax(S) == CHOOSE i \in S : \A j \in S : j <= i
ReadBit(f) == f % 2 = 1
AllTargetRead ==
    LET T == Target
    IN  \A r \in DOMAIN UserMessage : r[2] \in T => ReadBit(UserMessage[r])
\* no invocation is running and no event is waiting
ChainEnded == pc = "idle" /\ queue = <<>> /\ runs > 0
Expected ==
    LET T == Target
    IN  [r \in DOMAIN UserMessage0 |->
            IF r[2] \in T /\ ~ReadBit(UserMessage0[r]) THEN UserMessage0[r] + FlagRead
            ELSE UserMessage0[r]]

\* C1: along the chain of invocations that starts at cursor 0 and follows each
\* continuation, min_id strictly increases from one invocation to the next,
\* every batch holds target records only, no record is in two batches, no
\* target record below a selected one is left out, and when the chain has
\* ended the batches cover the whole target set.
C1_CursorMonotoneExactlyOnce ==
    /\ cursors # <<>> => cursors[1] = 0
    /\ \A i \in 1..(Len(cursors) - 1) : cursors[i] < cursors[i + 1]
    /\ LET T == Target
           S == Selected
       IN  /\ \A i \in 1..Len(batches) : batches[i] \subseteq T
           /\ \A t \in T : (\E x \in S : t < x) => t \in S
           /\ ChainEnded => S = T
    /\ \A i, j \in 1..Len(batches) : i < j => batches[i] \cap batches[j] = {}

C1_Witness ==
    /\ ChainEnded
    /\ Len(cursors) >= 3
    /\ Len(batches) >= 3
    /\ Selected = Target
    /\ \E i \in 1..Len(batches) : Cardinality(batches[i]) \notin {0, batch_size}

\* C2 as stated: the invocation that consumes a continuation completes the
\* remaining set.
C2_ConsumerCompletes ==
    (pc = "batch_log" /\ "min_id" \in DOMAIN event) => Selected = Target

\* C2 amended: an invocation publishes at most one event; it publishes one
\* exactly when it stops after a full batch with the budget exceeded, which
\* covers every invocation that stops with target records left; the event is
\* published after the last batch is committed, and equals the consumed event
\* with min_id set to that batch's greatest id; the invocation consuming it
\* selects only ids beyond min_id, and the invocations that follow it select
\* no record twice and leave none out.
C2_Continuation ==
    /\ Len(published) <= 1
    /\ pc \in {"consume", "batch_txn", "batch_after"} => published = <<>>
    /\ pc = "batch_log" =>
          /\ (published # <<>>) <=> (Len(messages) = batch_size /\ elapsed > TimeBudget)
          /\ Target \ Selected # {} => Len(published) = 1
    /\ published # <<>> =>
          /\ batches # <<>>
          /\ batches[Len(batches)] # {}
          /\ published[1] = [k \in DOMAIN event \cup {"min_id"} |->
                                IF k = "min_id" THEN SetMax(batches[Len(batches)])
                                ELSE event[k]]
          /\ \A r \in DOMAIN UserMessage :
                r[2] \in batches[Len(batches)] => ReadBit(UserMessage[r])
    /\ pc \in {"batch_after", "batch_log"} =>
          \A i \in 1..Len(messages) : messages[i] > EventGet(event, "min_id", 0)
    /\ \A i, j \in 1..Len(batches) : i < j => batches[i] \cap batches[j] = {}
    /\ ChainEnded => Selected = Target

C2_Witness ==
    /\ pc = "batch_log"
    /\ "min_id" \in DOMAIN event
    /\ Len(published) = 1
    /\ published[1].min_id > event.min_id
    /\ Target \ Selected # {}

\* C3: under fair scheduling the job reaches an invocation that ends without a
\* continuation, and from then on every record of the target set is read.
C3_EventuallyComplete == <>[](ChainEnded /\ published = <<>> /\ AllTargetRead)

C3_Witness ==
    /\ ChainEnded
    /\ published = <<>>
    /\ AllTargetRead
    /\ runs >= 3
    /\ \E r \in DOMAIN UserMessage0 : r[2] \in Target /\ ~ReadBit(UserMessage0[r])

\* C4: with redelivery, a flag changes only by an unread target row getting the
\* read bit (a read row is left as it is, nothing is toggled back), and when
\* the job has ended the store is the one a single application gives.
C4_Idempotent ==
    /\ [](ChainEnded => UserMessage = Expected)
    /\ [][\/ UserMessage' = UserMessage
          \/ LET T == Target
             IN  \A r \in DOMAIN UserMessage :
                    \/ UserMessage'[r] = UserMessage[r]
                    \/ /\ r[2] \in T
                       /\ ~ReadBit(UserMessage[r])
                       /\ UserMessage'[r] = UserMessage[r] + FlagRead]_vars

C4_Witness ==
    /\ ChainEnded
    /\ redeliveries >= 1
    /\ UserMessage = Expected
    /\ UserMessage # UserMessage0
    /\ \E i, j \in 1..Len(batches) : i < j /\ batches[i] \cap batches[j] # {}

----------------------------------------------------------------------------
(* Properties of the realm_export handler *)

Terminal == {"COMPLETED", "FAILED"}
Count(s, kind) == Cardinality({i \in 1..Len(s) : s[i].kind = kind})
CallsOf(calls, id) == Cardinality({i \in 1..Len(calls) : calls[i].row = id})
CallsHere == Cardinality({i \in 1..Len(export_calls) : export_calls[i].run = runs})
FailedPath == path \in {"exception", "short_circuit"}

\* C5: an invocation that finds the status row COMPLETED or FAILED makes no
\* call of the export operation, leaves the row FAILED, and sends one
\* notification, the observers' one, by the time it returns.
C5_TerminalRedelivery ==
    entry_status \in Terminal =>
        /\ CallsHere = 0
        /\ Status(export_row) = "FAILED"
        /\ Count(sent, "direct") = 0
        /\ Len(sent) <= 1
        /\ ended = "returned" => Len(sent) = 1

C5_Witness ==
    /\ ended = "returned"
    /\ entry_status = "COMPLETED"
    /\ Status(export_row) = "FAILED"
    /\ Len(sent) = 1

\* C6: a status row that is COMPLETED or FAILED is never changed again, neither
\* its status nor its failure timestamp.
C6_TerminalAbsorbing ==
    [][\A id \in DOMAIN RealmExport :
          Status(id) \in Terminal => RealmExport'[id] = RealmExport[id]]_vars

\* C7 as stated: over redeliveries, after a crash at any point too, the export
\* operation is started at most once for a status row.
C7_StartedAtMostOnce ==
    \A i, j \in 1..Len(export_calls) :
        i # j => export_calls[i].row # export_calls[j].row

\* C7 amended: the export operation is started only for a row that is
\* REQUESTED, and never again for a row once its status has left REQUESTED.
C7_NoStartAfterLeavingRequested ==
    /\ [](\A i \in 1..Len(export_calls) : export_calls[i].status = "REQUESTED")
    /\ [][\A id \in DOMAIN RealmExport :
             Status(id) # "REQUESTED" =>
                 CallsOf(export_calls', id) = CallsOf(export_calls, id)]_vars

C7_Witness ==
    /\ crashes >= 1
    /\ ended = "returned"
    /\ path = "short_circuit"
    /\ entry_status = "IN_PROGRESS"
    /\ CallsOf(export_calls, export_row) = 1

\* C8: when the export operation raised while the row was REQUESTED, the
\* handler returns with the row FAILED and its failure timestamp set, one
\* observers' notification sent, and no exception raised.
C8_ExceptionMarksFailed ==
    (ended = "returned" /\ path = "exception") =>
        /\ Status(export_row) = "FAILED"
        /\ RealmExport[export_row].date_failed # 0
        /\ Count(sent, "observers") = 1

\* C9 as stated: a failed job gives one notification to the initiating actor
\* and one to observers.
C9_FailureNotifiesActorAndObservers ==
    (ended = "returned" /\ FailedPath) =>
        /\ Count(sent, "direct") = 1
        /\ Count(sent, "observers") = 1

\* C9 amended: an invocation that ends a job in failure sends one notification
\* to observers and none to the initiating actor.
C9_FailureNotifiesObserversOnly ==
    FailedPath =>
        /\ Count(sent, "direct") = 0
        /\ Count(sent, "observers") <= 1
        /\ ended = "returned" => Count(sent, "observers") = 1

C9_Witness ==
    /\ ended = "returned"
    /\ path = "exception"
    /\ sent = <<[kind |-> "observers", status |-> Status(export_row)]>>

\* C10: on the successful path the handler sends one direct message to the
\* initiating actor and then one observers' notification, both with the row
\* already COMPLETED.
C10_SuccessNotifications ==
    path = "success" =>
        /\ \A i \in 1..Len(sent) : sent[i].status = "COMPLETED"
        /\ Count(sent, "direct") <= 1
        /\ Count(sent, "observers") <= 1
        /\ ended = "returned" =>
              sent = <<[kind |-> "direct", status |-> "COMPLETED"],
                       [kind |-> "observers", status |-> "COMPLETED"]>>

C10_Witness ==
    /\ ended = "returned"
    /\ path = "success"
    /\ Len(sent) = 2
    /\ CallsHere = 1

----------------------------------------------------------------------------
(* Properties of the retry policy and of the dispatch *)

\* the fields of an event but the attempt counter
Payload(ev) == [k \in DOMAIN ev \ {"failed_tries"} |-> ev[k]]
\* the current invocation's call of the dependency failed transiently
FailedTransiently ==
    /\ dep_calls # <<>>
    /\ dep_calls[1].outcome = "PushNotificationBouncerRetryLaterError"

\* C11: a clear_push_device_tokens invocation whose dependency fails
\* transiently re-submits the same event to the same queue, once, as long as
\* the event has failed at most MaxRetries times; the invocation that fails
\* after that, the (MaxRetries + 1)-th of an event that fails every time,
\* calls the terminal-failure handler instead, once, submits nothing, and
\* returns; no event is left to be retried after it.
C11_RetryTermination ==
    /\ failure_processed <= 1
    /\ \A i \in 1..Len(published) :
          published[i].type = "clear_push_device_tokens" =>
             /\ Payload(published[i]) = Payload(event)
             /\ published[i].failed_tries = EventGet(event, "failed_tries", 0) + 1
             /\ published[i].failed_tries <= MaxRetries
    /\ (event.type = "clear_push_device_tokens" /\ FailedTransiently
           /\ (pc = "finish" \/ (pc = "idle" /\ ended = "returned"))) =>
          IF EventGet(event, "failed_tries", 0) < MaxRetries
          THEN /\ Len(published) = 1
               /\ failure_processed = 0
               /\ pc = "finish" => queue = published
          ELSE /\ published = <<>>
               /\ failure_processed = 1
               /\ runs = MaxRetries + 1
               /\ queue = <<>>
               /\ ended # "raised"
    /\ failure_processed = 1 => queue = <<>> /\ runs = MaxRetries + 1

C11_Witness ==
    /\ event.type = "clear_push_device_tokens"
    /\ failure_processed = 1
    /\ runs = MaxRetries + 1
    /\ pc = "idle"
    /\ ended = "returned"

\* C12: no invocation of consume, of whatever event type, lets a
\* PushNotificationBouncerRetryLaterError escape: the error of a
\* push_bouncer_update_for_realm event is handled by the retry policy as the
\* error of a clear_push_device_tokens event is.
C12_TransientNeverEscapes ==
    ~(ended = "raised" /\ exc = "PushNotificationBouncerRetryLaterError")

\* C13: an invocation of consume that has returned without raising has logged
\* the completion line exactly once, whichever path it took.
C13_CompletionLoggedOnce == (pc = "idle" /\ ended = "returned") => logged = 1

\* the dependency calls and the positions that belong to the branch of a type
CallsOfType(type) ==
    CASE type = "mark_stream_messages_as_read" -> {"do_mark_stream_messages_as_read"}
      [] type = "clear_push_device_tokens" -> {"clear_push_device_tokens"}
      [] type = "reupload_realm_emoji" -> {"handle_reupload_emojis_event"}
      [] type = "soft_reactivate" -> {"reactivate_user_if_soft_deactivated"}
      [] type = "push_bouncer_update_for_realm" -> {"send_server_data_to_push_bouncer"}
      [] OTHER -> {}
PositionsOfType(type) ==
    CASE type = "mark_stream_messages_as_read_for_everyone" ->
            {"batch_txn", "batch_after", "batch_log"}
      [] type = "clear_push_device_tokens" -> {"clear_except", "finish"}
      [] type = "realm_export" ->
            {"export_check", "export_notify_failed", "export_call", "in_export",
             "exporting", "export_returned", "export_except", "export_notify"}
      [] OTHER -> {"finish"}

\* C14: an invocation enters the branch of its event's type and no other:
\* one branch at most, the dependency calls of that branch only, positions of
\* that branch only.  An event of a type no branch names enters none: no
\* step of its invocation changes the store or the queue, publishes, notifies
\* or calls a dependency, and the invocation returns with the completion
\* line logged.
C14_ExactlyOneHandler ==
    /\ [](/\ Len(handlers) <= 1
          /\ \A i \in 1..Len(handlers) : handlers[i] = event.type
          /\ \A i \in 1..Len(dep_calls) : dep_calls[i].name \in CallsOfType(event.type)
          /\ pc \notin {"idle", "consume"} =>
                /\ pc \in PositionsOfType(event.type)
                /\ handlers = IF event.type \in HandledTypes THEN <<event.type>>
                              ELSE <<>>
          /\ (pc = "idle" /\ runs > 0 /\ event.type \notin HandledTypes) =>
                ended = "returned" /\ logged = 1 /\ handlers = <<>>)
    /\ [][(pc # "idle" /\ event.type \notin HandledTypes) =>
             UNCHANGED <<Message, UserMessage, RealmExport, RealmAuditLog, queue,
                         published, sent, dep_calls, handlers, export_calls>>]_vars

C14_Witness ==
    /\ event.type = "unknown"
    /\ pc = "idle"
    /\ ended = "returned"
    /\ logged = 1
    /\ UserMessage = UserMessage0
    /\ UserMessage # <<>>

----------------------------------------------------------------------------
(* Properties of a failing batch *)

\* the failure the current invocation comes after: the invocation before it,
\* of the same event, ended in a failed batch transaction
RetriesFailure ==
    /\ failures # <<>>
    /\ failures[Len(failures)].run = runs - 1
    /\ failures[Len(failures)].event = event
    /\ pc \in {"batch_txn", "batch_after", "batch_log"}
LastFailure == failures[Len(failures)]

\* the step in which a batch transaction fails changes no row, leaves the
\* rows of the batches committed before as read, keeps the cursor, and
\* publishes nothing, in this step or before it in the invocation
FailedBatchRolledBack ==
    failures' # failures =>
        /\ UserMessage' = UserMessage
        /\ \A i \in 1..Len(batches) : \A u \in Users, id \in batches[i] :
              ReadBit(UserMessage'[<<u, id>>])
        /\ min_id' = min_id
        /\ batches' = batches
        /\ queue' = queue
        /\ published' = <<>>
        /\ ended' = "raised"

\* C15 as stated: the failed batch is rolled back alone, and the next
\* invocation of the event starts at the position of the failed batch.
C15_RetriesFromFailedBatch ==
    /\ [][FailedBatchRolledBack]_vars
    /\ [](RetriesFailure => cursors[Len(cursors)] = LastFailure.min_id)

\* C15: the failed batch is rolled back alone, the cursor is not advanced
\* and nothing is published; the next invocation of the event starts at the
\* event's own min_id, at or before the position of the failed batch, and
\* when it has run to its end without a continuation the rows of the failed
\* batch are read.
C15_RestartsFromEventCursor ==
    /\ [][FailedBatchRolledBack]_vars
    /\ [](RetriesFailure =>
             /\ cursors[Len(cursors)] = EventGet(event, "min_id", 0)
             /\ cursors[Len(cursors)] <= LastFailure.min_id
             /\ (pc = "batch_log" /\ published = <<>>) =>
                   \A u \in Users, id \in Range(SelectBatch(event, LastFailure.min_id)) :
                      ReadBit(UserMessage[<<u, id>>]))

C15_Witness ==
    /\ RetriesFailure
    /\ pc = "batch_log"
    /\ published = <<>>
    /\ LastFailure.min_id > EventGet(event, "min_id", 0)
    /\ SelectBatch(event, LastFailure.min_id) # <<>>

\* C16: an invocation whose batch came back with fewer than batch_size ids
\* stops and publishes nothing, whatever time has passed.  With the 120
\* records 1..120 and the budget exceeded after the second batch, the first
\* invocation commits 1..50 and 51..100 and publishes one continuation with
\* min_id = 100; the invocation of the continuation commits 101..120, 20
\* records, and publishes nothing.
C16_PartialBatchStops ==
    LET T == Target
    IN  /\ (pc = "batch_log" /\ Len(messages) < batch_size) =>
              published = <<>> /\ queue = <<>>
        /\ (T = 1..120 /\ runs = 1 /\ pc = "batch_log" /\ Len(batches) = 2) =>
              /\ batches = <<1..50, 51..100>>
              /\ published = <<WithMinId(MarkAllEvent, 100)>>
              /\ queue = published
        /\ (T = 1..120 /\ runs = 2 /\ cursors = <<0, 100>> /\ pc = "batch_log") =>
              /\ batches = <<1..50, 51..100, 101..120>>
              /\ total_messages = 20
              /\ published = <<>>
              /\ queue = <<>>
              /\ AllTargetRead

C16_Witness ==
    /\ Target = 1..120
    /\ runs = 2
    /\ cursors = <<0, 100>>
    /\ pc = "batch_log"
    /\ Len(messages) = 20
    /\ elapsed > TimeBudget

\* C17: when clear_push_device_tokens raises anything but the transient
\* error, the exception leaves consume at once: the event is not submitted
\* again, the terminal-failure handler is not called, and the invocation
\* does not return.
C17_OtherFailurePropagates ==
    (/\ event.type = "clear_push_device_tokens"
     /\ dep_calls # <<>>
     /\ dep_calls[1].outcome = "Exception") =>
        /\ pc = "idle"
        /\ ended = "raised"
        /\ exc = "Exception"
        /\ published = <<>>
        /\ queue = <<>>
        /\ failure_processed = 0
        /\ logged = 0

C17_Witness ==
    /\ event.type = "clear_push_device_tokens"
    /\ dep_calls = <<Call("clear_push_device_tokens", "Exception")>>
    /\ EventGet(event, "failed_tries", 0) > 0
    /\ ended = "raised"

----------------------------------------------------------------------------
(* Further properties of the export handler *)

\* C18: an invocation has sent the direct message only after its own call of
\* the export operation returned; an invocation on the short-circuit path or
\* on the exception path sends none.
C18_DirectMessageOnlyAfterExport ==
    /\ Count(sent, "direct") > 0 =>
          /\ path = "success"
          /\ CallsHere = 1
          /\ Count(sent, "direct") = 1
          /\ pc \in {"export_notify", "idle"}
    /\ FailedPath => Count(sent, "direct") = 0

C18_Witness ==
    /\ path = "success"
    /\ pc = "export_notify"
    /\ Count(sent, "direct") = 1
    /\ CallsHere = 1
    /\ runs > 1

\* C19: however often a legacy event is delivered, at most one status record
\* exists for its audit-log entry, the one the first delivery created.
C19_OneRecordPerAuditEntry ==
    event = LegacyExportEvent =>
        /\ Cardinality(DOMAIN RealmExport) <= 1
        /\ export_row \in {0, 1}

====
